---- MODULE Spec2Model ----
(***************************************************************************)
(* Model of the MQTT packet encoder of mqtt3 (src/mqtt3/src/write.rs):     *)
(* the trait MqttWrite with write_packet, write_mqtt_string and            *)
(* write_remaining_length, writing through a byte sink.                    *)
(*                                                                         *)
(* Byte sequences (the sink's contents, strings, payloads) are held        *)
(* run-length encoded, as sequences of runs [val, cnt] in canonical form   *)
(* (no empty run, no two adjacent runs with the same value), so that a     *)
(* string of 65536 bytes or a payload longer than MAX_PAYLOAD_SIZE is a    *)
(* value the model can hold.  The encoder never inspects the content of a  *)
(* string or payload, only its length and its bytes as a whole.            *)
(***************************************************************************)
EXTENDS Integers, Sequences, FiniteSets, TLC

VARIABLES sink, before, call, arg, result, calls, failedAt, truncated

vars == <<sink, before, call, arg, result, calls, failedAt, truncated>>

(***************************************************************************)
(* Bounds of the model.                                                    *)
(***************************************************************************)
\* the sink may fail or accept a prefix at any of its first MaxFaultAt calls
MaxFaultAt == 21
\* a short write accepts 0..MaxShort bytes
MaxShort == 2

(***************************************************************************)
(* Program constants.                                                      *)
(***************************************************************************)
MAX_PAYLOAD_SIZE == 268435455

Min(a, b) == IF a < b THEN a ELSE b

(***************************************************************************)
(* Byte sequences, run-length encoded.                                     *)
(***************************************************************************)
Run(v, n) == IF n = 0 THEN <<>> ELSE <<[val |-> v, cnt |-> n]>>

Cat(a, b) ==
    IF a = <<>> THEN b
    ELSE IF b = <<>> THEN a
    ELSE IF a[Len(a)].val = b[1].val
         THEN SubSeq(a, 1, Len(a) - 1)
              \o <<[val |-> b[1].val, cnt |-> a[Len(a)].cnt + b[1].cnt]>>
              \o Tail(b)
         ELSE a \o b

RECURSIVE ByteLen(_)
ByteLen(a) == IF a = <<>> THEN 0 ELSE a[1].cnt + ByteLen(Tail(a))

RECURSIVE Take(_, _)
Take(a, k) ==
    IF k <= 0 \/ a = <<>> THEN <<>>
    ELSE IF a[1].cnt >= k THEN Run(a[1].val, k)
    ELSE <<a[1]>> \o Take(Tail(a), k - a[1].cnt)

RECURSIVE Drop(_, _)
Drop(a, k) ==
    IF a = <<>> THEN <<>>
    ELSE IF k <= 0 THEN a
    ELSE IF a[1].cnt > k THEN <<[val |-> a[1].val, cnt |-> a[1].cnt - k]>> \o Tail(a)
    ELSE Drop(Tail(a), k - a[1].cnt)

RECURSIVE FromSeq(_)
FromSeq(s) == IF s = <<>> THEN <<>> ELSE Cat(Run(Head(s), 1), FromSeq(Tail(s)))

\* x as u16: the low 16 bits
AsU16(x) == x % 65536

\* the two bytes of a u16, most significant first
BigEndian(x) == Cat(Run(x \div 256, 1), Run(x % 256, 1))

RECURSIVE BitOr(_, _)
BitOr(a, b) ==
    IF a = 0 THEN b
    ELSE IF b = 0 THEN a
    ELSE (IF a % 2 = 1 \/ b % 2 = 1 THEN 1 ELSE 0) + 2 * BitOr(a \div 2, b \div 2)

RECURSIVE BitAnd(_, _)
BitAnd(a, b) ==
    IF a = 0 \/ b = 0 THEN 0
    ELSE (IF a % 2 = 1 /\ b % 2 = 1 THEN 1 ELSE 0) + 2 * BitAnd(a \div 2, b \div 2)

\* x << k on a u8
Shl8(x, k) == (x * (2 ^ k)) % 256

(***************************************************************************)
(* The sink.  self is the writer during one call: the sink's contents, the *)
(* outcome of the last statement, the number of write calls made on the    *)
(* sink, the call that failed (0: none), whether a write was cut short,    *)
(* and the fault the sink will show during this call.                      *)
(***************************************************************************)
NoFault == [kind |-> "none", at |-> 0, keep |-> 0]

Faults ==
    {NoFault}
    \cup {[kind |-> "fail", at |-> i, keep |-> k] : i \in 1..MaxFaultAt, k \in 0..1}
    \cup {[kind |-> "short", at |-> i, keep |-> k] : i \in 1..MaxFaultAt, k \in 0..MaxShort}

Self(s, f) == [sink |-> s, res |-> "Ok", n |-> 0, failed |-> 0, short |-> FALSE, fault |-> f]

Fail(self, e) == [self EXCEPT !.res = e]

\* Write::write_all, through which byteorder's write_u8 and write_u16 go:
\* all of buf is appended, or the call fails having appended a proper prefix
write_all(self, buf) ==
    LET i == self.n + 1 IN
    IF self.fault.kind = "fail" /\ self.fault.at = i
    THEN [self EXCEPT !.sink = Cat(@, Take(buf, Min(self.fault.keep, ByteLen(buf) - 1))),
                      !.res = "Io", !.n = i, !.failed = i]
    ELSE [self EXCEPT !.sink = Cat(@, buf), !.res = "Ok", !.n = i]

write_u8(self, b) == write_all(self, Run(b, 1))

write_u16(self, x) == write_all(self, BigEndian(x))

\* Write::write: one attempt; the sink appends a prefix of buf and reports its
\* length, which the callers in write.rs drop
write(self, buf) ==
    LET i == self.n + 1 IN
    IF self.fault.kind = "fail" /\ self.fault.at = i
    THEN [self EXCEPT !.res = "Io", !.n = i, !.failed = i]
    ELSE IF self.fault.kind = "short" /\ self.fault.at = i /\ self.fault.keep < ByteLen(buf)
    THEN [self EXCEPT !.sink = Cat(@, Take(buf, self.fault.keep)),
                      !.res = "Ok", !.n = i, !.short = TRUE]
    ELSE [self EXCEPT !.sink = Cat(@, buf), !.res = "Ok", !.n = i]

(***************************************************************************)
(* The body of a method is a sequence of statements try!(self.m(..)), run  *)
(* by TryEach: each statement runs on the writer the one before it left,   *)
(* and the first that does not return Ok ends the method with its error.   *)
(***************************************************************************)
U8(b) == [op |-> "write_u8", byte |-> b]
U16(x) == [op |-> "write_u16", word |-> x]
Bytes(buf) == [op |-> "write", buf |-> buf]
RemLen(len) == [op |-> "write_remaining_length", len |-> len]
MqttStr(string) == [op |-> "write_mqtt_string", string |-> string]

Only(S) == CHOOSE r \in S : TRUE

RECURSIVE TryEach(_, _)

(***************************************************************************)
(* write_mqtt_string and write_remaining_length.                           *)
(***************************************************************************)
write_mqtt_string(self, string) ==
    TryEach(self, <<U16(AsU16(ByteLen(string))), Bytes(string)>>)

\* the loop of write_remaining_length without the continuation flag
RECURSIVE RemainingLengthLoopNoFlag(_, _)
RemainingLengthLoopNoFlag(self, x) ==
    Only({IF s1.res # "Ok" \/ x \div 128 <= 0 THEN s1
          ELSE RemainingLengthLoopNoFlag(s1, x \div 128) :
          s1 \in {write_u8(self, x % 128)}})

RECURSIVE RemainingLengthLoop(_, _)
RemainingLengthLoop(self, x) ==
    LET x2   == x \div 128
        byte == IF x2 > 0 THEN BitOr(x % 128, 128) ELSE x % 128
    IN  Only({IF s1.res # "Ok" \/ x2 <= 0 THEN s1 ELSE RemainingLengthLoop(s1, x2) :
              s1 \in {write_u8(self, byte)}})

\* write_remaining_length with the cap checked after the loop
write_remaining_length_late(self, len) ==
    Only({IF s1.res = "Ok" /\ len > MAX_PAYLOAD_SIZE THEN Fail(s1, "PayloadTooLong") ELSE s1 :
          s1 \in {RemainingLengthLoop(self, len)}})

write_remaining_length(self, len) ==
    IF len > MAX_PAYLOAD_SIZE
    THEN Fail(self, "PayloadTooLong")
    ELSE RemainingLengthLoop(self, len)

\* one statement self.m(..)
Call(self, stmt) ==
    CASE stmt.op = "write_u8"               -> write_u8(self, stmt.byte)
      [] stmt.op = "write_u16"              -> write_u16(self, stmt.word)
      [] stmt.op = "write"                  -> write(self, stmt.buf)
      [] stmt.op = "write_remaining_length" -> write_remaining_length(self, stmt.len)
      [] stmt.op = "write_mqtt_string"      -> write_mqtt_string(self, stmt.string)

\* TryEach with the error of a statement dropped: the next one runs all the same
RECURSIVE EachUnchecked(_, _)
EachUnchecked(self, stmts) ==
    IF stmts = <<>> THEN self
    ELSE Only({EachUnchecked(s1, rest) :
               s1 \in {Call(self, Head(stmts))}, rest \in {Tail(stmts)}})

TryEach(self, stmts) ==
    IF stmts = <<>> THEN self
    ELSE Only({IF s1.res = "Ok" THEN TryEach(s1, rest) ELSE s1 :
               s1 \in {Call(self, Head(stmts))}, rest \in {Tail(stmts)}})

(***************************************************************************)
(* The types write.rs imports.  An Option is a sequence of at most one     *)
(* element; a Vec of return codes is held as runs [err, qos, cnt].         *)
(***************************************************************************)
to_u8(qos) ==
    CASE qos = "AtMostOnce" -> 0
      [] qos = "AtLeastOnce" -> 1
      [] qos = "ExactlyOnce" -> 2

ProtocolName(protocol) ==
    IF protocol.family = "MQTT"
    THEN FromSeq(<<77, 81, 84, 84>>)
    ELSE FromSeq(<<77, 81, 73, 115, 100, 112>>)

ProtocolLevel(protocol) == protocol.level

CodeToU8(code) ==
    CASE code = "Accepted" -> 0
      [] code = "NotAuthorized" -> 5

BoolAsU8(b) == IF b THEN 1 ELSE 0

(***************************************************************************)
(* write_packet, one definition per arm of the match.                      *)
(***************************************************************************)
ConnectLen(connect) ==
    8 + ByteLen(ProtocolName(connect.protocol)) + ByteLen(connect.client_id)
    + (IF connect.last_will # <<>>
       THEN 4 + ByteLen(connect.last_will[1].topic) + ByteLen(connect.last_will[1].message)
       ELSE 0)
    + (IF connect.username # <<>> THEN 2 + ByteLen(connect.username[1]) ELSE 0)
    + (IF connect.password # <<>> THEN 2 + ByteLen(connect.password[1]) ELSE 0)

\* ConnectFlags with the username and password bits exchanged
ConnectFlagsSwapped(connect) ==
    LET f1 == IF connect.clean_session THEN BitOr(0, 2) ELSE 0
        f2 == IF connect.last_will # <<>>
              THEN LET a == BitOr(f1, 4)
                       b == BitOr(a, Shl8(to_u8(connect.last_will[1].qos), 3))
                   IN  IF connect.last_will[1].retain THEN BitOr(b, 32) ELSE b
              ELSE f1
        f3 == IF connect.password # <<>> THEN BitOr(f2, 128) ELSE f2
    IN  IF connect.username # <<>> THEN BitOr(f3, 64) ELSE f3

ConnectFlags(connect) ==
    LET f1 == IF connect.clean_session THEN BitOr(0, 2) ELSE 0
        f2 == IF connect.last_will # <<>>
              THEN LET a == BitOr(f1, 4)
                       b == BitOr(a, Shl8(to_u8(connect.last_will[1].qos), 3))
                   IN  IF connect.last_will[1].retain THEN BitOr(b, 32) ELSE b
              ELSE f1
        f3 == IF connect.password # <<>> THEN BitOr(f2, 64) ELSE f2
    IN  IF connect.username # <<>> THEN BitOr(f3, 128) ELSE f3

WriteConnect(self, connect) ==
    TryEach(self,
        <<U8(16),
          RemLen(ConnectLen(connect)),
          MqttStr(ProtocolName(connect.protocol)),
          U8(ProtocolLevel(connect.protocol)),
          U8(ConnectFlags(connect)),
          U16(connect.keep_alive),
          MqttStr(connect.client_id)>>
        \o (IF connect.last_will # <<>>
            THEN <<MqttStr(connect.last_will[1].topic), MqttStr(connect.last_will[1].message)>>
            ELSE <<>>)
        \o (IF connect.username # <<>> THEN <<MqttStr(connect.username[1])>> ELSE <<>>)
        \o (IF connect.password # <<>> THEN <<MqttStr(connect.password[1])>> ELSE <<>>))

WriteConnack(self, connack) ==
    write(self, FromSeq(<<32, 2, BoolAsU8(connack.session_present), CodeToU8(connack.code)>>))

PublishHeader(publish) ==
    BitOr(BitOr(BitOr(48, BoolAsU8(publish.retain)), Shl8(to_u8(publish.qos), 1)),
          Shl8(BoolAsU8(publish.dup), 3))

PublishLen(publish) == ByteLen(publish.topic_name) + 4 + ByteLen(publish.payload)

\* the Publish arm with the remaining length sized and checked before the
\* header byte is written
WritePublishSizedFirst(self, publish) ==
    TryEach(self,
        <<RemLen(PublishLen(publish)),
          U8(PublishHeader(publish)),
          MqttStr(publish.topic_name)>>
        \o (IF publish.qos # "AtMostOnce" /\ publish.pid # <<>>
            THEN <<U16(publish.pid[1])>> ELSE <<>>)
        \o <<Bytes(publish.payload)>>)

WritePublish(self, publish) ==
    TryEach(self,
        <<U8(PublishHeader(publish)),
          RemLen(PublishLen(publish)),
          MqttStr(publish.topic_name)>>
        \o (IF publish.qos # "AtMostOnce" /\ publish.pid # <<>>
            THEN <<U16(publish.pid[1])>> ELSE <<>>)
        \o <<Bytes(publish.payload)>>)

\* the arms of Puback (0x40), Pubrel (0x62) and Unsuback (0xB0)
WriteAck(self, header, pid) ==
    TryEach(self, <<Bytes(FromSeq(<<header, 2>>)), U16(pid)>>)

RECURSIVE SubscribeLen(_)
SubscribeLen(topics) ==
    IF topics = <<>> THEN 2
    ELSE ByteLen(topics[1][1]) + 3 + SubscribeLen(Tail(topics))

\* the statements of the loop over the topics
RECURSIVE TopicStmts(_)
TopicStmts(topics) ==
    IF topics = <<>> THEN <<>>
    ELSE <<MqttStr(topics[1][1]), U8(to_u8(topics[1][2]))>> \o TopicStmts(Tail(topics))

WriteSubscribe(self, subscribe) ==
    TryEach(self,
        <<Bytes(FromSeq(<<130>>)),
          RemLen(SubscribeLen(subscribe.topics)),
          U16(subscribe.pid)>>
        \o TopicStmts(subscribe.topics))

RECURSIVE CodesLen(_)
CodesLen(return_codes) ==
    IF return_codes = <<>> THEN 0 ELSE return_codes[1].cnt + CodesLen(Tail(return_codes))

ReturnCodeByte(err, qos) == BitAnd(Shl8(BoolAsU8(err), 7), to_u8(qos))

RECURSIVE SubackPayload(_)
SubackPayload(return_codes) ==
    IF return_codes = <<>> THEN <<>>
    ELSE Cat(Run(ReturnCodeByte(return_codes[1].err, return_codes[1].qos), return_codes[1].cnt),
             SubackPayload(Tail(return_codes)))

WriteSuback(self, suback) ==
    TryEach(self,
        <<Bytes(FromSeq(<<144>>)),
          RemLen(CodesLen(suback.return_codes) + 2),
          U16(suback.pid),
          Bytes(SubackPayload(suback.return_codes))>>)

\* write_packet with Pubrec and Pubcomp written the way Puback is
write_packet_all_acks(self, packet) ==
    CASE packet.type = "Connect"     -> WriteConnect(self, packet)
      [] packet.type = "Connack"     -> WriteConnack(self, packet)
      [] packet.type = "Publish"     -> WritePublish(self, packet)
      [] packet.type = "Puback"      -> WriteAck(self, 64, packet.pid)
      [] packet.type = "Pubrec"      -> WriteAck(self, 80, packet.pid)
      [] packet.type = "Pubrel"      -> WriteAck(self, 98, packet.pid)
      [] packet.type = "Pubcomp"     -> WriteAck(self, 112, packet.pid)
      [] packet.type = "Subscribe"   -> WriteSubscribe(self, packet)
      [] packet.type = "Suback"      -> WriteSuback(self, packet)
      [] packet.type = "Unsubscribe" -> Fail(self, "UnsupportedPacketType")
      [] packet.type = "Unsuback"    -> WriteAck(self, 176, packet.pid)
      [] packet.type = "Pingreq"     -> write(self, FromSeq(<<192, 0>>))
      [] packet.type = "Pingresp"    -> write(self, FromSeq(<<208, 0>>))
      [] packet.type = "Disconnect"  -> write(self, FromSeq(<<224, 0>>))

write_packet(self, packet) ==
    CASE packet.type = "Connect"     -> WriteConnect(self, packet)
      [] packet.type = "Connack"     -> WriteConnack(self, packet)
      [] packet.type = "Publish"     -> WritePublish(self, packet)
      [] packet.type = "Puback"      -> WriteAck(self, 64, packet.pid)
      [] packet.type = "Pubrec"      -> Fail(self, "UnsupportedPacketType")
      [] packet.type = "Pubrel"      -> WriteAck(self, 98, packet.pid)
      [] packet.type = "Pubcomp"     -> Fail(self, "UnsupportedPacketType")
      [] packet.type = "Subscribe"   -> WriteSubscribe(self, packet)
      [] packet.type = "Suback"      -> WriteSuback(self, packet)
      [] packet.type = "Unsubscribe" -> Fail(self, "UnsupportedPacketType")
      [] packet.type = "Unsuback"    -> WriteAck(self, 176, packet.pid)
      [] packet.type = "Pingreq"     -> write(self, FromSeq(<<192, 0>>))
      [] packet.type = "Pingresp"    -> write(self, FromSeq(<<208, 0>>))
      [] packet.type = "Disconnect"  -> write(self, FromSeq(<<224, 0>>))

(***************************************************************************)
(* The inputs: packets, lengths, strings and what the sink holds when the  *)
(* call starts.                                                            *)
(***************************************************************************)
\* one more than the cap
Huge == MAX_PAYLOAD_SIZE + 1

Blob(n) == Run(120, n)

QoSs == {"AtMostOnce", "AtLeastOnce", "ExactlyOnce"}

Pids == {10, 260}

Test == FromSeq(<<116, 101, 115, 116>>)
Rust == FromSeq(<<114, 117, 115, 116>>)
Mq == FromSeq(<<109, 113>>)
SlashA == FromSeq(<<47, 97>>)
Offline == FromSeq(<<111, 102, 102, 108, 105, 110, 101>>)
AB == FromSeq(<<97, 47, 98>>)

Wills ==
    {<<>>} \cup {<<[topic |-> SlashA, message |-> Offline, retain |-> r, qos |-> q]>> :
                    r \in BOOLEAN, q \in QoSs}

Connects ==
    [type : {"Connect"},
     protocol : {[family |-> "MQTT", level |-> 4], [family |-> "MQIsdp", level |-> 3]},
     keep_alive : {10, 300},
     client_id : {Test},
     clean_session : BOOLEAN,
     last_will : Wills,
     username : {<<>>, <<Rust>>},
     password : {<<>>, <<Mq>>, <<Blob(65536)>>, <<Blob(Huge)>>}]

Connacks ==
    [type : {"Connack"}, session_present : BOOLEAN, code : {"Accepted", "NotAuthorized"}]

Publishes ==
    [type : {"Publish"}, dup : BOOLEAN, qos : QoSs, retain : BOOLEAN,
     topic_name : {AB, Blob(65537)},
     pid : {<<>>, <<10>>},
     payload : {<<>>, FromSeq(<<241, 242, 243, 244>>), Blob(Huge)}]

PidPackets ==
    [type : {"Puback", "Pubrec", "Pubrel", "Pubcomp", "Unsuback"}, pid : Pids]

TopicLists ==
    {<<>>,
     <<<<FromSeq(<<97, 47, 43>>), "AtMostOnce">>, <<FromSeq(<<35>>), "AtLeastOnce">>,
       <<FromSeq(<<97, 47, 98, 47, 99>>), "ExactlyOnce">>>>,
     <<<<AB, "ExactlyOnce">>, <<Blob(Huge), "AtMostOnce">>>>}

Subscribes == [type : {"Subscribe"}, pid : Pids, topics : TopicLists]

Unsubscribes == [type : {"Unsubscribe"}, pid : Pids, topics : {<<>>, <<AB>>}]

Codes == [err : BOOLEAN, qos : QoSs, cnt : {1}]

ReturnCodeLists ==
    {<<>>} \cup {<<c>> : c \in Codes} \cup {<<c, d>> : c \in Codes, d \in Codes}
    \cup {<<[err |-> FALSE, qos |-> "AtLeastOnce", cnt |-> Huge]>>,
          <<[err |-> TRUE, qos |-> "ExactlyOnce", cnt |-> MAX_PAYLOAD_SIZE - 1]>>}

Subacks == [type : {"Suback"}, pid : Pids, return_codes : ReturnCodeLists]

Packets ==
    Connects \cup Connacks \cup Publishes \cup PidPackets \cup Subscribes
    \cup Unsubscribes \cup Subacks
    \cup {[type |-> "Pingreq"], [type |-> "Pingresp"], [type |-> "Disconnect"]}

Lengths ==
    (0..300) \cup (16382..16386) \cup (2097150..2097154)
    \cup ((MAX_PAYLOAD_SIZE - 3)..(MAX_PAYLOAD_SIZE + 3)) \cup {2 * Huge}

Strings ==
    {<<>>, Test, Offline, AB}
    \cup {Blob(n) : n \in {1, 255, 256, 65535, 65536, 65537, 131075}}

\* an empty buffer, a buffer holding an earlier Pingreq frame, a buffer
\* holding the header byte an earlier Connect left behind
StartSinks == {<<>>, FromSeq(<<192, 0>>), FromSeq(<<16>>)}

(***************************************************************************)
(* The state machine: a sink, and one call of a trait method on it.        *)
(***************************************************************************)
Init ==
    /\ sink \in StartSinks
    /\ before = sink
    /\ call = "none"
    /\ arg = <<>>
    /\ result = "none"
    /\ calls = 0
    /\ failedAt = 0
    /\ truncated = FALSE

Returned(name, a, self) ==
    /\ sink' = self.sink
    /\ before' = sink
    /\ call' = name
    /\ arg' = a
    /\ result' = self.res
    /\ calls' = self.n
    /\ failedAt' = self.failed
    /\ truncated' = self.short

WritePacket ==
    /\ call = "none"
    /\ \E packet \in Packets, fault \in Faults :
          Returned("write_packet", packet, write_packet(Self(sink, fault), packet))

WriteMqttString ==
    /\ call = "none"
    /\ \E string \in Strings, fault \in Faults :
          Returned("write_mqtt_string", string, write_mqtt_string(Self(sink, fault), string))

WriteRemainingLength ==
    /\ call = "none"
    /\ \E len \in Lengths, fault \in Faults :
          Returned("write_remaining_length", len, write_remaining_length(Self(sink, fault), len))

Next ==
    \/ WritePacket
    \/ WriteMqttString
    \/ WriteRemainingLength

Spec == Init /\ [][Next]_vars

(***************************************************************************)
(* What the properties read off the state.                                 *)
(***************************************************************************)
\* the bytes the call appended to the sink
Written == Drop(sink, ByteLen(before))

\* the sink made no call fail and took every byte offered
SinkAcceptedAll == failedAt = 0 /\ ~truncated

RECURSIVE ByteAt(_, _)
ByteAt(a, i) == IF i < a[1].cnt THEN a[1].val ELSE ByteAt(Tail(a), i - a[1].cnt)

\* the remaining-length field that starts at byte pos of w, as a decoder
\* reads it: 7 value bits per byte, least significant group first, the high
\* bit of a byte announcing another byte, at most 4 bytes
RECURSIVE DecodeFrom(_, _, _, _)
DecodeFrom(w, pos, mult, left) ==
    IF pos >= ByteLen(w) \/ left = 0 THEN [value |-> 0, size |-> 0]
    ELSE LET b == ByteAt(w, pos) IN
         IF b >= 128
         THEN LET r == DecodeFrom(w, pos + 1, mult * 128, left - 1)
              IN  [value |-> (b % 128) * mult + r.value, size |-> 1 + r.size]
         ELSE [value |-> b * mult, size |-> 1]

DecodeField(w, pos) == DecodeFrom(w, pos, 1, 4)

\* a string as it stands on the wire when its length fits 16 bits
Prefixed(str) ==
    Cat(Cat(Run(ByteLen(str) \div 256, 1), Run(ByteLen(str) % 256, 1)), str)

\* the frame w is header, then a remaining-length field holding the length of
\* body, then body
IsFrame(w, header, body) ==
    /\ ByteLen(w) >= 2
    /\ ByteAt(w, 0) = header
    /\ DecodeField(w, 1).value = ByteLen(body)
    /\ Drop(w, 1 + DecodeField(w, 1).size) = body

\* C1: whenever write_packet returns Ok on a sink that accepts every byte,
\* the value of the remaining-length field equals the number of bytes
\* written after that field.
C1_RemainingLengthCountsBytes ==
    (call = "write_packet" /\ result = "Ok" /\ SinkAcceptedAll)
        => /\ ByteLen(Written) >= 2
           /\ DecodeField(Written, 1).value
                 = ByteLen(Written) - 1 - DecodeField(Written, 1).size

\* C2: write_packet on Pubrec, Pubcomp or Unsubscribe returns
\* UnsupportedPacketType, makes no write call and leaves the sink as it was.
C2_UnsupportedWritesNothing ==
    (call = "write_packet" /\ arg.type \in {"Pubrec", "Pubcomp", "Unsubscribe"})
        => (result = "UnsupportedPacketType" /\ sink = before /\ calls = 0)

C2_Witness ==
    /\ call = "write_packet"
    /\ arg.type = "Unsubscribe"
    /\ before # <<>>
    /\ result = "UnsupportedPacketType"

\* C3: for every length above MAX_PAYLOAD_SIZE, write_remaining_length
\* returns PayloadTooLong without a single write call: the sink is unchanged.
C3_TooLongWritesNothing ==
    (call = "write_remaining_length" /\ arg > MAX_PAYLOAD_SIZE)
        => (result = "PayloadTooLong" /\ sink = before /\ calls = 0)

C3_Witness ==
    /\ call = "write_remaining_length"
    /\ arg = MAX_PAYLOAD_SIZE + 1
    /\ result = "PayloadTooLong"

\* the least number of 7-bit groups that hold L
MinBytes(L) ==
    IF L < 128 THEN 1 ELSE IF L < 16384 THEN 2 ELSE IF L < 2097152 THEN 3 ELSE 4

\* C4: for 0 <= L <= MAX_PAYLOAD_SIZE on a sink that fails no call,
\* write_remaining_length returns Ok having appended the base-128 encoding of
\* L: it decodes to L, has the least possible number of bytes, and the high
\* bit is set on every byte but the last.
C4_RemainingLengthEncoding ==
    (call = "write_remaining_length" /\ arg >= 0 /\ arg <= MAX_PAYLOAD_SIZE /\ failedAt = 0)
        => /\ result = "Ok"
           /\ Take(sink, ByteLen(before)) = before
           /\ ByteLen(Written) = MinBytes(arg)
           /\ calls = MinBytes(arg)
           /\ DecodeField(Written, 0) = [value |-> arg, size |-> MinBytes(arg)]
           /\ \A i \in 0..(ByteLen(Written) - 1) :
                 (ByteAt(Written, i) >= 128) <=> (i < ByteLen(Written) - 1)
           /\ (arg = 0 => Written = Run(0, 1))

C4_Witness ==
    /\ call = "write_remaining_length"
    /\ arg = MAX_PAYLOAD_SIZE
    /\ result = "Ok"
    /\ Written = Cat(Run(255, 3), Run(127, 1))

\* C5: write_mqtt_string fails on a string longer than 65535 bytes, and a
\* call that returns Ok on a sink that accepts every byte has written a
\* 2-byte prefix equal to the number of string bytes after it.
C5_StringLengthValidated ==
    (call = "write_mqtt_string")
        => /\ (ByteLen(arg) > 65535 => result # "Ok")
           /\ (result = "Ok" /\ SinkAcceptedAll)
                 => /\ ByteLen(Written) >= 2
                    /\ 256 * ByteAt(Written, 0) + ByteAt(Written, 1) = ByteLen(Written) - 2

\* the return code (err, qos) as the protocol has it: the failure flag at bit 7
\* joined to the granted QoS
ReturnCodeOr(err, qos) == (IF err THEN 128 ELSE 0) + to_u8(qos)

RECURSIVE PayloadOr(_)
PayloadOr(return_codes) ==
    IF return_codes = <<>> THEN <<>>
    ELSE Cat(Run(ReturnCodeOr(return_codes[1].err, return_codes[1].qos), return_codes[1].cnt),
             PayloadOr(Tail(return_codes)))

\* C6: a Suback written to a sink that accepts every byte is 0x90, the
\* remaining length 2 + count, the identifier big-endian, then one byte per
\* return code, in order, each the failure flag at bit 7 OR the QoS.
C6_SubackReturnCodesOr ==
    (call = "write_packet" /\ arg.type = "Suback" /\ result = "Ok" /\ SinkAcceptedAll)
        => IsFrame(Written, 144,
                   Cat(Cat(Run(arg.pid \div 256, 1), Run(arg.pid % 256, 1)),
                       PayloadOr(arg.return_codes)))

\* the strings of a Connect, each with the 16 bits of its prefix to fit
ConnectStrings(connect) ==
    {ProtocolName(connect.protocol), connect.client_id}
    \cup (IF connect.last_will # <<>>
          THEN {connect.last_will[1].topic, connect.last_will[1].message} ELSE {})
    \cup (IF connect.username # <<>> THEN {connect.username[1]} ELSE {})
    \cup (IF connect.password # <<>> THEN {connect.password[1]} ELSE {})

\* the connect flags, bit by bit: bit0 = 0, bit1 = clean session, bit2 = will,
\* bits 3-4 = will QoS, bit5 = will retain, bit6 = password, bit7 = username
FlagBits(connect) ==
    (IF connect.clean_session THEN 2 ELSE 0)
    + (IF connect.last_will # <<>>
       THEN 4 + 8 * to_u8(connect.last_will[1].qos)
              + (IF connect.last_will[1].retain THEN 32 ELSE 0)
       ELSE 0)
    + (IF connect.password # <<>> THEN 64 ELSE 0)
    + (IF connect.username # <<>> THEN 128 ELSE 0)

\* variable header and payload of a Connect, field after field
ConnectBody(connect) ==
    LET head == Cat(Cat(Cat(Cat(Prefixed(ProtocolName(connect.protocol)),
                                Run(ProtocolLevel(connect.protocol), 1)),
                            Run(FlagBits(connect), 1)),
                        Cat(Run(connect.keep_alive \div 256, 1),
                            Run(connect.keep_alive % 256, 1))),
                    Prefixed(connect.client_id))
        will == IF connect.last_will # <<>>
                THEN Cat(Prefixed(connect.last_will[1].topic),
                         Prefixed(connect.last_will[1].message))
                ELSE <<>>
        user == IF connect.username # <<>> THEN Prefixed(connect.username[1]) ELSE <<>>
        pass == IF connect.password # <<>> THEN Prefixed(connect.password[1]) ELSE <<>>
    IN  Cat(Cat(Cat(head, will), user), pass)

\* C7: a Connect whose strings fit their prefixes, written to a sink that
\* accepts every byte, is 0x10, the remaining length, the protocol name, the
\* level, the flags byte, the keep-alive big-endian, the client id, then
\* the will topic and message, the username and the password, each only if
\* present and in that order; the flags byte has the bits of FlagBits.
C7_ConnectLayout ==
    (/\ call = "write_packet"
     /\ arg.type = "Connect"
     /\ SinkAcceptedAll
     /\ \A str \in ConnectStrings(arg) : ByteLen(str) <= 65535)
        => /\ result = "Ok"
           /\ Take(sink, ByteLen(before)) = before
           /\ IsFrame(Written, 16, ConnectBody(arg))

C7_Witness ==
    /\ call = "write_packet"
    /\ arg.type = "Connect"
    /\ SinkAcceptedAll
    /\ arg.last_will # <<>>
    /\ arg.username # <<>>
    /\ arg.password = <<Mq>>
    /\ result = "Ok"
    /\ ByteLen(Written) = 41

\* C8: once a write call on the sink has failed, the method makes no further
\* call on the sink and returns that failure.
C8_FailureAborts ==
    (call # "none" /\ failedAt # 0) => (result = "Io" /\ calls = failedAt)

C8_Witness ==
    /\ call = "write_packet"
    /\ arg.type = "Connect"
    /\ arg.password # <<>>
    /\ failedAt = 5
    /\ result = "Io"

\* the remaining length write_packet computes for the packets it sizes
ComputedLen(packet) ==
    CASE packet.type = "Connect"   -> ConnectLen(packet)
      [] packet.type = "Publish"   -> PublishLen(packet)
      [] packet.type = "Subscribe" -> SubscribeLen(packet.topics)
      [] packet.type = "Suback"    -> CodesLen(packet.return_codes) + 2

\* the fixed header byte of those packets
HeaderByte(packet) ==
    CASE packet.type = "Connect"   -> 16
      [] packet.type = "Publish"   -> 48 + (IF packet.retain THEN 1 ELSE 0)
                                         + 2 * to_u8(packet.qos)
                                         + (IF packet.dup THEN 8 ELSE 0)
      [] packet.type = "Subscribe" -> 130
      [] packet.type = "Suback"    -> 144

\* C9: a Connect, Publish, Subscribe or Suback whose computed remaining length
\* exceeds MAX_PAYLOAD_SIZE, written to a sink that accepts every byte,
\* returns PayloadTooLong and leaves exactly the fixed header byte appended
\* to the sink.
C9_OverflowLeavesHeader ==
    (/\ call = "write_packet"
     /\ arg.type \in {"Connect", "Publish", "Subscribe", "Suback"}
     /\ SinkAcceptedAll
     /\ ComputedLen(arg) > MAX_PAYLOAD_SIZE)
        => /\ result = "PayloadTooLong"
           /\ sink = Cat(before, Run(HeaderByte(arg), 1))
           /\ calls = 1

C9_Witness ==
    /\ call = "write_packet"
    /\ arg.type = "Suback"
    /\ SinkAcceptedAll
    /\ CodesLen(arg.return_codes) = MAX_PAYLOAD_SIZE - 1
    /\ result = "PayloadTooLong"
    /\ sink = Cat(before, Run(144, 1))

\* the frame of a packet: what write_packet appends to an empty sink that
\* accepts every byte
Frame(packet) == write_packet(Self(<<>>, NoFault), packet).sink

\* C10: whenever write_packet returns Ok, whatever the sink did, the whole
\* frame of the packet has been appended to the sink.
C10_OkMeansWholeFrame ==
    (call = "write_packet" /\ result = "Ok") => sink = Cat(before, Frame(arg))

====
